---- MODULE Spec2Model ----
(***************************************************************************)
(* Signal synthesis pipeline of the market-intel platform:                 *)
(*   NewsDrivenSignalGenerator (news-driven fusion, History dedup),        *)
(*   SignalGenerator (watchlist fusion), DigestService (fallback chain).   *)
(*                                                                         *)
(* Scores are fixed point.  Sentiment and technical scores are held in     *)
(* thousandths (0.3 is 300); a combined score is held in ten-thousandths   *)
(* (0.7*s + 0.3*t is 7*s + 3*t); confidence_score is held in hundredths.   *)
(* RSI is held in tenths (30 is 300), so (50 - rsi)/100 in thousandths is  *)
(* 500 - rsi.  Time is counted in whole days.                              *)
(***************************************************************************)
EXTENDS Integers, Sequences, FiniteSets, TLC

VARIABLES
    now,        \* the clock (datetime.utcnow()), in days
    history,    \* rows of the signal_history table, in insertion order
    pc,         \* per request: position inside generate_daily_digest
    max_items,  \* per request: max_items / max_signals
    pending,    \* per request: (article, symbol) pairs still to be dedup-checked
    opps,       \* per request: symbol_opportunities
    signals,    \* per request: the signals list of the running generate_signals
    lookup,     \* per request: the last _is_duplicate_signal call and its result
    fusion,     \* per request: the last fusion attempt and its result
    lastRun,    \* per request: the generate_signals call last made, and its outcome
    digest,     \* per request: the DigestResponse (or the raised error)
    emitted,    \* every news-driven signal returned so far, with its return time
    nDigests,   \* number of generate_daily_digest calls started
    pin,        \* inputs handed to the pure scoring functions
    pout,       \* their outputs
    delivered   \* every generated (non-demo) item of a returned digest

vars == <<now, history, pc, max_items, pending, opps, signals, lookup, fusion,
          lastRun, digest, emitted, nDigests, pin, pout, delivered>>

runVars == <<now, history, pc, max_items, pending, opps, signals, lookup, fusion,
             lastRun, digest, emitted, nDigests, delivered>>

(***************************************************************************)
(* Bounds of the model                                                     *)
(***************************************************************************)
MaxDay == 8          \* the clock stops here (one day past the dedup window)
MaxDigests == 2      \* generate_daily_digest calls per behaviour
MaxArticles == 2     \* articles returned by one news fetch
MaxItems == 2        \* largest max_items / max_signals asked for

(***************************************************************************)
(* Program constants                                                       *)
(***************************************************************************)
MIN_SENTIMENT_CONFIDENCE == 600   \* 0.6, thousandths
MIN_SENTIMENT_SCORE == 300        \* abs(sentiment_score) >= 0.3, thousandths
MIN_COMBINED_SCORE == 3000        \* 0.3, ten-thousandths
SG_MIN_COMBINED_SCORE == 1500     \* 0.15, ten-thousandths
SIGNAL_EXPIRY_DAYS == 7
TRADE_ALERT_CUT == 6000           \* abs(score) > 0.6, ten-thousandths
WATCH_LIST_CUT == 4000            \* abs(score) > 0.4, ten-thousandths

Abs(x) == IF x < 0 THEN -x ELSE x
Min2(a, b) == IF a < b THEN a ELSE b
Max2(a, b) == IF a > b THEN a ELSE b

\* max(-1.0, min(1.0, score)) in thousandths
Clamp1(score) == Max2(-1000, Min2(1000, score))

\* round(x, 2) of a non-negative value held in ten-thousandths: the result in
\* hundredths, halves going to the even neighbour
Round2(x) ==
    LET q == x \div 100
        r == x % 100
    IN  IF r > 50 THEN q + 1
        ELSE IF r < 50 THEN q
        ELSE IF q % 2 = 0 THEN q ELSE q + 1

(***************************************************************************)
(* Technical snapshots (the dict get_comprehensive_analysis returns)       *)
(***************************************************************************)
RsiValues == {0, 250, 300, 350, 399, 400, 500, 600, 601, 650, 700, 750, 1000}

Snapshots ==
    [has_rsi : BOOLEAN, rsi : RsiValues,
     macd : {"missing", "bullish", "bearish"},
     has_mas : BOOLEAN, above_ema_20 : BOOLEAN, above_ema_50 : BOOLEAN,
     above_ema_200 : BOOLEAN, golden_cross : BOOLEAN, death_cross : BOOLEAN,
     has_volume : BOOLEAN, high_volume : BOOLEAN, ratio_above_1_5 : BOOLEAN]

\* a missing input carries no values
WellFormed(s) ==
    /\ (~s.has_rsi => s.rsi = 0)
    /\ (~s.has_mas => ~s.above_ema_20 /\ ~s.above_ema_50 /\ ~s.above_ema_200
                      /\ ~s.golden_cross /\ ~s.death_cross)
    /\ ~(s.golden_cross /\ s.death_cross)
    /\ (~s.has_volume => ~s.high_volume /\ ~s.ratio_above_1_5)
    /\ (s.ratio_above_1_5 => s.high_volume)

TechSnapshots == {s \in Snapshots : WellFormed(s)}

\* the RSI term shared by both implementations
RsiTerm(rsi) ==
    IF rsi < 300 THEN 300
    ELSE IF rsi > 700 THEN -300
    ELSE IF 400 <= rsi /\ rsi <= 600 THEN 0
    ELSE 500 - rsi

\* NewsDrivenSignalGenerator._calculate_technical_score before the clamp,
\* split at the volume step: the running total, then the volume adjustment
ND_running_total(s) ==
    (IF s.has_rsi /\ s.rsi # 0 THEN RsiTerm(s.rsi) ELSE 0)
    + (IF s.macd = "missing" THEN 0 ELSE IF s.macd = "bullish" THEN 200 ELSE -200)
    + (IF s.has_mas /\ s.above_ema_200 THEN 150 ELSE 0)
    + (IF s.has_mas /\ s.golden_cross THEN 200 ELSE 0)
    + (IF s.has_mas /\ s.death_cross THEN -200 ELSE 0)

ND_volume_step(s, score) ==
    IF s.has_volume /\ s.high_volume
    THEN (IF score > 0 THEN score + 100 ELSE score - 100)
    ELSE score

ND_calculate_technical_score(s) ==
    Clamp1(ND_volume_step(s, ND_running_total(s)))

\* SignalGenerator._calculate_technical_score
SG_running_total(s) ==
    (IF s.has_rsi THEN RsiTerm(s.rsi) ELSE 0)
    + (IF s.macd = "bullish" THEN 250 ELSE IF s.macd = "bearish" THEN -250 ELSE 0)
    + (IF s.has_mas /\ s.above_ema_20 THEN 100 ELSE 0)
    + (IF s.has_mas /\ s.above_ema_50 THEN 100 ELSE 0)
    + (IF s.has_mas /\ s.above_ema_200 THEN 100 ELSE 0)
    + (IF s.has_mas /\ s.golden_cross THEN 150 ELSE 0)
    + (IF s.has_mas /\ s.death_cross THEN -150 ELSE 0)

SG_volume_step_noratio(s, score) ==
    IF s.has_volume /\ s.high_volume
    THEN (IF score > 0 THEN score + 150 ELSE score - 150)
    ELSE score

SG_volume_step(s, score) ==
    IF s.has_volume /\ s.high_volume /\ s.ratio_above_1_5
    THEN (IF score > 0 THEN score + 150 ELSE score - 150)
    ELSE score

SG_factors(s) ==
    (IF s.has_rsi THEN 1 ELSE 0) + (IF s.macd # "missing" THEN 1 ELSE 0)
    + (IF s.has_mas THEN 1 ELSE 0) + (IF s.has_volume THEN 1 ELSE 0)

SG_clamp_unbounded(score) == score

SG_clamp(score) == Clamp1(score)

SG_calculate_technical_score(s) ==
    IF SG_factors(s) > 0
    THEN SG_clamp(SG_volume_step(s, SG_running_total(s)))
    ELSE 0

(***************************************************************************)
(* Category and priority (score in ten-thousandths)                        *)
(***************************************************************************)
ND_determine_category_noabs(score) ==
    IF score > TRADE_ALERT_CUT THEN "trade_alert"
    ELSE IF score > WATCH_LIST_CUT THEN "watch_list"
    ELSE "market_context"

ND_determine_category(score) ==
    IF Abs(score) > TRADE_ALERT_CUT THEN "trade_alert"
    ELSE IF Abs(score) > WATCH_LIST_CUT THEN "watch_list"
    ELSE "market_context"

SG_determine_category(score) ==
    IF Abs(score) > TRADE_ALERT_CUT THEN "trade_alert"
    ELSE IF Abs(score) > WATCH_LIST_CUT THEN "watch_list"
    ELSE "market_context"

\* ml_confidence in thousandths
ND_determine_priority_scoreonly(score, ml_confidence) ==
    IF Abs(score) > 7000 THEN "high"
    ELSE IF Abs(score) > 5000 THEN "medium"
    ELSE "low"

ND_determine_priority(score, ml_confidence) ==
    IF Abs(score) > 7000 /\ ml_confidence > 800 THEN "high"
    ELSE IF Abs(score) > 5000 THEN "medium"
    ELSE "low"

SG_determine_priority(score, s) ==
    IF Abs(score) > 7000 /\ (s.has_volume /\ s.high_volume) THEN "high"
    ELSE IF Abs(score) > 5000 THEN "medium"
    ELSE "low"

CategoryRank(c) ==
    IF c = "market_context" THEN 0 ELSE IF c = "watch_list" THEN 1 ELSE 2

(***************************************************************************)
(* Sequences                                                               *)
(***************************************************************************)
SeqsUpTo(S, n) == UNION {[1..k -> S] : k \in 0..n}

\* s[:n]
Take(s, n) == SubSeq(s, 1, Min2(n, Len(s)))

RECURSIVE Flatten(_)
Flatten(ss) == IF ss = <<>> THEN <<>> ELSE Head(ss) \o Flatten(Tail(ss))

\* list.sort(key=published, reverse=True): stable, so an element goes after
\* every element whose key is not smaller
InsertByPublished(s, x) ==
    LET n == Cardinality({i \in 1..Len(s) : s[i].published >= x.published})
    IN  SubSeq(s, 1, n) \o <<x>> \o SubSeq(s, n + 1, Len(s))

RECURSIVE SortByPublished(_)
SortByPublished(s) ==
    IF s = <<>> THEN <<>>
    ELSE InsertByPublished(SortByPublished(SubSeq(s, 1, Len(s) - 1)), s[Len(s)])

\* signals.sort(key=confidence_score, reverse=True)
InsertByConfidence_unstable(s, x) ==
    LET n == Cardinality({i \in 1..Len(s) : s[i].confidence_score > x.confidence_score})
    IN  SubSeq(s, 1, n) \o <<x>> \o SubSeq(s, n + 1, Len(s))

InsertByConfidence(s, x) ==
    LET n == Cardinality({i \in 1..Len(s) : s[i].confidence_score >= x.confidence_score})
    IN  SubSeq(s, 1, n) \o <<x>> \o SubSeq(s, n + 1, Len(s))

RECURSIVE SortByConfidence(_)
SortByConfidence(s) ==
    IF s = <<>> THEN <<>>
    ELSE InsertByConfidence(SortByConfidence(SubSeq(s, 1, Len(s) - 1)), s[Len(s)])

\* the tail of both generate_signals: sort, then signals[:max_signals]
SortAndLimit_nolimit(sigs, max_signals) == SortByConfidence(sigs)

SortAndLimit(sigs, max_signals) == Take(SortByConfidence(sigs), max_signals)

(***************************************************************************)
(* News articles and ML sentiment                                          *)
(***************************************************************************)
Slots == {1, 2}

PublishedTimes == {0, 1}

\* str.strip() on the titles and summaries the feeds are modelled with
Strip(text) == IF text = " " THEN "" ELSE text

\* NewsService._clean_html on the same
clean_html(text) == IF text = "<b>text</b>" THEN "text" ELSE text

\* the published date of an entry as fetch_rss_feed takes it:
\* the parsed date when feedparser produced one, the current time otherwise
PublishedOf(entry, at) ==
    IF entry.date = "parsed" THEN at - entry.age ELSE at

\* the per-entry test of fetch_rss_feed: inside the window, title and summary
\* not empty
KeepsEntry(entry, at, lookback) ==
    /\ ~(PublishedOf(entry, at) < at - lookback)
    /\ Strip(entry.title) # ""
    /\ Strip(entry.summary) # ""

\* NewsService.fetch_rss_feed; lookback in days. A feed that fails to parse
\* gives the empty list. Each article remembers the position of its entry.
fetch_rss_feed(feed_ok, entries, at, lookback) ==
    IF ~feed_ok THEN <<>>
    ELSE LET first == Take(entries, 20)
             kept == SelectSeq([i \in 1..Len(first) |-> i],
                               LAMBDA i : KeepsEntry(first[i], at, lookback))
         IN  [k \in 1..Len(kept) |->
                 [title |-> Strip(first[kept[k]].title),
                  summary |-> clean_html(Strip(first[kept[k]].summary)),
                  published |-> PublishedOf(first[kept[k]], at),
                  entry |-> kept[k]]]

\* NewsService.fetch_all_news: the feeds' articles, newest first
fetch_all_news(raw) == Take(SortByPublished(raw), 100)

Max3(a, b, c) == Max2(a, Max2(b, c))

\* one prediction of batch_analyze_sentiment
SentimentOf(p) ==
    LET max_prob == Max3(p.neg, p.neu, p.pos)
    IN  [score |-> p.pos - p.neg,
         confidence |-> max_prob,
         label |-> IF p.pos = max_prob THEN "positive"
                   ELSE IF p.neg = max_prob THEN "negative"
                   ELSE "neutral"]

\* the except branch of batch_analyze_sentiment
NeutralSentiment == [score |-> 0, confidence |-> 0, label |-> "neutral"]

\* generate_signals steps 2-3: attach the sentiment, keep the significant
AttachSentiment(a, ml) ==
    LET s == IF ml = "ok" THEN SentimentOf(a.probs) ELSE NeutralSentiment
    IN  [symbols |-> a.symbols, published |-> a.published,
         sentiment_score |-> s.score, ml_confidence |-> s.confidence,
         sentiment_label |-> s.label]

IsSignificant(a) ==
    /\ a.ml_confidence >= MIN_SENTIMENT_CONFIDENCE
    /\ Abs(a.sentiment_score) >= MIN_SENTIMENT_SCORE

SignificantNews(news, ml) ==
    SelectSeq([i \in 1..Len(news) |-> AttachSentiment(news[i], ml)], IsSignificant)

\* generate_signals step 4, before the duplicate check: one candidate per
\* (article, extracted symbol), in article order
Candidates(significant) ==
    Flatten([i \in 1..Len(significant) |->
        [j \in 1..Len(significant[i].symbols) |->
            [symbol |-> significant[i].symbols[j],
             news_sentiment |-> significant[i].sentiment_score,
             ml_confidence |-> significant[i].ml_confidence,
             sentiment_label |-> significant[i].sentiment_label,
             published |-> significant[i].published]]])

(***************************************************************************)
(* The History store                                                       *)
(***************************************************************************)
\* rows written for a (symbol, signal_type)
RowsOf(hist, symbol, signal_type) ==
    {i \in 1..Len(hist) : hist[i].symbol = symbol /\ hist[i].signal_type = signal_type}

\* rows the select of _is_duplicate_signal matches
MatchingRows(hist, symbol, signal_type, at) ==
    {i \in 1..Len(hist) :
        /\ hist[i].symbol = symbol
        /\ hist[i].signal_type = signal_type
        /\ hist[i].created_at >= at - SIGNAL_EXPIRY_DAYS}

\* result.scalar_one_or_none() is not None; it raises on two or more rows
is_duplicate_signal(hist, symbol, signal_type, at, db_ok) ==
    LET n == Cardinality(MatchingRows(hist, symbol, signal_type, at))
    IN  IF ~db_ok THEN "db_error"
        ELSE IF n = 0 THEN "False"
        ELSE IF n = 1 THEN "True"
        ELSE "MultipleResultsFound"

\* the row _record_signal_history adds
HistoryRow(opp, at, run) ==
    [symbol |-> opp.symbol, signal_type |-> opp.sentiment_label,
     sentiment_score |-> opp.news_sentiment, created_at |-> at, expires_at |-> at + SIGNAL_EXPIRY_DAYS, run |-> run]

(***************************************************************************)
(* Market data                                                             *)
(***************************************************************************)
Snap(has_rsi, rsi, macd, a200, golden, death, high_volume) ==
    [has_rsi |-> has_rsi, rsi |-> rsi, macd |-> macd,
     has_mas |-> TRUE, above_ema_20 |-> a200, above_ema_50 |-> a200,
     above_ema_200 |-> a200, golden_cross |-> golden, death_cross |-> death,
     has_volume |-> TRUE, high_volume |-> high_volume,
     ratio_above_1_5 |-> high_volume]

NoSnapshot ==
    [has_rsi |-> FALSE, rsi |-> 0, macd |-> "missing",
     has_mas |-> FALSE, above_ema_20 |-> FALSE, above_ema_50 |-> FALSE,
     above_ema_200 |-> FALSE, golden_cross |-> FALSE, death_cross |-> FALSE,
     has_volume |-> FALSE, high_volume |-> FALSE, ratio_above_1_5 |-> FALSE]

(***************************************************************************)
(* Signals                                                                 *)
(***************************************************************************)
NoSignal ==
    [symbol |-> "", signal_type |-> "", combined |-> 0, confidence_score |-> 0,
     category |-> "", priority |-> "", published |-> 0, source |-> "none"]

\* combined_score = news_sentiment * 0.7 + tech_score * 0.3
ND_combined_score_techheavy(news_sentiment, tech_score) ==
    3 * news_sentiment + 7 * tech_score

ND_combined_score(news_sentiment, tech_score) == 7 * news_sentiment + 3 * tech_score

ND_passes_gate_always(combined_score) == TRUE

ND_passes_gate(combined_score) == ~(Abs(combined_score) < MIN_COMBINED_SCORE)

\* NewsDrivenSignalGenerator._create_signal_from_opportunity
ND_create_signal_from_opportunity(opp, md) ==
    LET tech_score == ND_calculate_technical_score(md.snap)
        combined_score == ND_combined_score(opp.news_sentiment, tech_score)
    IN  IF md.kind # "ok"
        THEN [result |-> "no_data", tech |-> 0, combined |-> 0, signal |-> NoSignal]
        ELSE IF ~ND_passes_gate(combined_score)
        THEN [result |-> "below_threshold", tech |-> tech_score,
              combined |-> combined_score, signal |-> NoSignal]
        \* _generate_explanation calls macd.get on the None that a failed
        \* calculate_macd leaves in the analysis
        ELSE IF md.snap.macd = "missing"
        THEN [result |-> "error", tech |-> tech_score,
              combined |-> combined_score, signal |-> NoSignal]
        ELSE [result |-> "signal", tech |-> tech_score, combined |-> combined_score,
              signal |-> [symbol |-> opp.symbol,
                          signal_type |-> opp.sentiment_label,
                          combined |-> combined_score,
                          confidence_score |-> Round2(Abs(combined_score)),
                          category |-> ND_determine_category(combined_score),
                          priority |-> ND_determine_priority(combined_score, opp.ml_confidence),
                          published |-> opp.published,
                          source |-> "news_driven_ml"]]

\* DEFAULT_WATCHLIST, its first entries
DEFAULT_WATCHLIST == <<"AAPL", "MSFT">>

RECURSIVE SumSeq(_)
SumSeq(s) == IF s = <<>> THEN 0 ELSE Head(s) + SumSeq(Tail(s))

\* integer quotient rounding toward zero, as the fixed-point stand-in of /
DivTrunc(a, b) == IF a >= 0 THEN a \div b ELSE -((-a) \div b)

\* SignalGenerator._calculate_news_score
SG_calculate_news_score(articles) ==
    IF articles = <<>> THEN 0
    ELSE Clamp1(DivTrunc(SumSeq(articles), Len(articles)))

\* combined_score = tech_score * 0.6 + news_score * 0.4
SG_combined_score(tech_score, news_score) == 6 * tech_score + 4 * news_score

SG_passes_gate(combined_score) == ~(Abs(combined_score) < SG_MIN_COMBINED_SCORE)

\* NewsService.get_symbol_specific_news: the symbol's articles, or [] when
\* the lookup raised
get_symbol_specific_news(in) == IF in.news_ok THEN in.news ELSE <<>>

\* SignalGenerator._analyze_symbol; any exception inside it returns None
SG_analyze_symbol(symbol, in) ==
    LET tech_score == SG_calculate_technical_score(in.md.snap)
        news_score == SG_calculate_news_score(get_symbol_specific_news(in))
        combined_score == SG_combined_score(tech_score, news_score)
        out == [symbol |-> symbol, result |-> "no_data", tech |-> 0, news |-> 0,
                news_obtained |-> in.news_ok, combined |-> 0, signal |-> NoSignal]
    IN  IF in.md.kind = "no_analysis"
        THEN out
        ELSE IF ~SG_passes_gate(combined_score)
        THEN [out EXCEPT !.result = "below_threshold", !.tech = tech_score,
                         !.news = news_score, !.combined = combined_score]
        ELSE IF in.fault
        THEN [out EXCEPT !.result = "error", !.tech = tech_score,
                         !.news = news_score, !.combined = combined_score]
        ELSE [out EXCEPT !.result = "signal", !.tech = tech_score,
                         !.news = news_score, !.combined = combined_score,
                         !.signal =
                             [symbol |-> symbol,
                              signal_type |-> "",
                              combined |-> combined_score,
                              confidence_score |-> Round2(Abs(combined_score)),
                              category |-> SG_determine_category(combined_score),
                              priority |-> SG_determine_priority(combined_score, in.md.snap),
                              published |-> 0,
                              source |-> "technical_analysis+news"]]

\* SignalGenerator.generate_signals over the watchlist
SG_analyzed(inputs) ==
    [i \in 1..Len(DEFAULT_WATCHLIST) |-> SG_analyze_symbol(DEFAULT_WATCHLIST[i], inputs[i])]

IsSignal(a) == a.result = "signal"

SG_produced(inputs) ==
    LET hits == SelectSeq(SG_analyzed(inputs), IsSignal)
    IN  [i \in 1..Len(hits) |-> hits[i].signal]

(***************************************************************************)
(* Demo data                                                               *)
(***************************************************************************)
Demo(symbol, confidence_score, priority, category) ==
    [symbol |-> symbol, signal_type |-> "", combined |-> 0,
     confidence_score |-> confidence_score, category |-> category,
     priority |-> priority, published |-> 0, source |-> "demo"]

demo_signals ==
    << Demo("NVDA", 88, "high", "trade_alert"),
       Demo("SPY", 72, "high", "watch_list"),
       Demo("TSLA", 79, "high", "trade_alert"),
       Demo("GLD", 76, "medium", "trade_alert"),
       Demo("VIX", 81, "high", "market_context"),
       Demo("QQQ", 80, "high", "trade_alert"),
       Demo("JPM", 83, "high", "trade_alert"),
       Demo("AMD", 81, "high", "trade_alert"),
       Demo("TLT", 71, "medium", "trade_alert"),
       Demo("XLE", 77, "high", "trade_alert") >>

\* DigestService._generate_demo_signals
generate_demo_signals(n) == Take(SortByConfidence(demo_signals), n)

(***************************************************************************)
(* Symbol extraction                                                       *)
(***************************************************************************)
\* What the two extraction methods find about one ticker in an article:
\* whether a ticker pattern matched and where ("title", "repeated": more than
\* twice in the text, "once"), whether a company name matched and where
\* ("title", "repeated": more than once, "once").
Findings ==
    [symbol : {"AAPL"}, by_ticker : BOOLEAN, ticker_where : {"title", "repeated", "once"},
     by_company : BOOLEAN, company_where : {"title", "repeated", "once"}]

\* confidence of a ticker-pattern match, thousandths
TickerConfidence(f) ==
    IF f.ticker_where = "title" THEN 950
    ELSE IF f.ticker_where = "repeated" THEN 850
    ELSE 700

\* confidence of a company-name match, thousandths
CompanyConfidence(f) ==
    IF f.company_where = "title" THEN 900
    ELSE IF f.company_where = "repeated" THEN 750
    ELSE 600

\* the first loop of extract_symbols: tickers found by pattern
TickerResults(found, min_confidence) ==
    LET hits == SelectSeq(found,
                    LAMBDA f : f.by_ticker /\ TickerConfidence(f) >= min_confidence)
    IN  [i \in 1..Len(hits) |->
            [symbol |-> hits[i].symbol, confidence |-> TickerConfidence(hits[i]),
             method |-> "ticker_pattern"]]

\* the second loop of extract_symbols: tickers found by company name that are
\* not in the results yet
CompanyResults(found, results, min_confidence) ==
    LET hits == SelectSeq(found,
                    LAMBDA f : /\ f.by_company
                               /\ \A i \in DOMAIN results : results[i].symbol # f.symbol
                               /\ CompanyConfidence(f) >= min_confidence)
    IN  [i \in 1..Len(hits) |->
            [symbol |-> hits[i].symbol, confidence |-> CompanyConfidence(hits[i]),
             method |-> "company_name"]]

\* results.sort(key=confidence, reverse=True)
InsertByExtractConfidence(s, x) ==
    LET n == Cardinality({i \in 1..Len(s) : s[i].confidence >= x.confidence})
    IN  SubSeq(s, 1, n) \o <<x>> \o SubSeq(s, n + 1, Len(s))

RECURSIVE SortByExtractConfidence(_)
SortByExtractConfidence(s) ==
    IF s = <<>> THEN <<>>
    ELSE InsertByExtractConfidence(SortByExtractConfidence(SubSeq(s, 1, Len(s) - 1)), s[Len(s)])

\* SymbolExtractor.extract_symbols
extract_symbols(found, min_confidence) ==
    LET results == TickerResults(found, min_confidence)
    IN  SortByExtractConfidence(results \o CompanyResults(found, results, min_confidence))

(***************************************************************************)
(* Social hype                                                             *)
(***************************************************************************)
\* SocialMention.__init__: momentum, the change of the mention count in
\* percent, here in thousandths of a percent point per 200 (momentum / 200)
MomentumOver200(mentions, mentions_24h_ago) ==
    IF mentions_24h_ago > 0
    THEN DivTrunc((mentions - mentions_24h_ago) * 500, mentions_24h_ago)
    ELSE IF mentions > 0 THEN 500 ELSE 0

\* round(x, 3) of a value held in millionths: the result in thousandths,
\* halves going to the even neighbour
Round3(x) ==
    LET m == Abs(x)
        q == m \div 1000
        r == m % 1000
        up == IF r > 500 THEN q + 1
              ELSE IF r < 500 THEN q
              ELSE IF q % 2 = 0 THEN q ELSE q + 1
    IN  IF x < 0 THEN -up ELSE up

\* SocialSentimentService.calculate_hype_score, thousandths
calculate_hype_score(has_social, mentions, mentions_24h_ago, social, news_sentiment) ==
    IF ~has_social
    THEN DivTrunc(news_sentiment + 1000, 2)
    ELSE LET momentum_score == Min2(MomentumOver200(mentions, mentions_24h_ago), 1000)
             twice_social == social + 1000
             twice_news == news_sentiment + 1000
         IN  Round3(momentum_score * 300 + twice_social * 100 + twice_news * 250)

(***************************************************************************)
(* DigestService.generate_daily_digest                                     *)
(***************************************************************************)
NoLookup ==
    [symbol |-> "", signal_type |-> "", at |-> 0, rows |-> 0, live |-> 0, result |-> "none"]
\* fetched: the symbols whose analysis the run has asked the provider for
NoFusion ==
    [mode |-> "none", news |-> 0, tech |-> 0, combined |-> 0, result |-> "none",
     fetched |-> <<>>]
NoRun ==
    [generator |-> "none", status |-> "none", cause |-> "", produced |-> <<>>,
     result |-> <<>>, analyzed |-> <<>>]
NoDigest ==
    [id |-> 0, status |-> "none", items |-> <<>>, source |-> "none", tried |-> <<>>,
     categories |-> <<>>]

\* the except branch of generate_daily_digest
DigestOnError_reraise(d, n) ==
    [d EXCEPT !.status = "raised", !.tried = Append(d.tried, "news:raised")]

DigestOnError(d, n) ==
    [d EXCEPT !.status = "building", !.items = generate_demo_signals(n), !.source = "demo",
              !.tried = Append(d.tried, "news:raised") \o <<"demo">>]

\* the news-driven generator returned: its items when it has some
DigestAfterNews(d, result) ==
    IF result # <<>>
    THEN [d EXCEPT !.items = result, !.source = "news", !.tried = Append(d.tried, "news:items")]
    ELSE [d EXCEPT !.tried = Append(d.tried, "news:empty")]

\* the technical-only generator returned: its items, or the demo data
DigestAfterFallback(d, result, n) ==
    IF result # <<>>
    THEN [d EXCEPT !.items = result, !.source = "technical",
                   !.tried = Append(d.tried, "technical:items")]
    ELSE [d EXCEPT !.items = generate_demo_signals(n), !.source = "demo",
                   !.tried = Append(d.tried, "technical:empty") \o <<"demo">>]

\* what a returned news-driven list adds to the record of emitted signals
Emissions(result, at, id) ==
    {[symbol |-> result[i].symbol, signal_type |-> result[i].signal_type,
      at |-> at, digest |-> id, pos |-> i] : i \in 1..Len(result)}

\* NewsDrivenSignalGenerator.generate_signals sorts and limits sigs and returns
\* to generate_daily_digest, which goes on with the items or falls back
NewsReturns(r, d, sigs, m) ==
    LET result == SortAndLimit(sigs, m)
    IN  /\ lastRun' = [lastRun EXCEPT ![r] =
               [generator |-> "news", status |-> "returned", cause |-> "",
                produced |-> sigs, result |-> result, analyzed |-> <<>>]]
        /\ emitted' = emitted \cup Emissions(result, now, d.id)
        /\ digest' = [digest EXCEPT ![r] = DigestAfterNews(d, result)]
        /\ pc' = [pc EXCEPT ![r] = IF result # <<>> THEN "ctx" ELSE "tech"]

\* NewsDrivenSignalGenerator.generate_signals raises into generate_daily_digest
NewsRaises(r, d, cause, m) ==
    /\ lastRun' = [lastRun EXCEPT ![r] =
           [generator |-> "news", status |-> "raised", cause |-> cause,
            produced |-> <<>>, result |-> <<>>, analyzed |-> <<>>]]
    /\ emitted' = emitted
    /\ digest' = [digest EXCEPT ![r] = DigestOnError(d, m)]
    /\ pc' = [pc EXCEPT ![r] = IF digest'[r].status = "raised" THEN "idle" ELSE "ctx"]

\* generate_daily_digest is called with max_items and categories (the custom
\* endpoint passes the request's list, the daily endpoint none; the body never
\* reads it); the news-driven generator runs up to its
\* first duplicate check: news fetch, batch sentiment, filter, extraction
StartDigest(r, env) ==
    /\ pc[r] = "idle"
    /\ nDigests < env.limit
    /\ \E m \in 0..MaxItems, raw \in env.batches,
          ml \in {"ok", "inference_error", "load_error"}, cats \in env.categories :
        LET news == fetch_all_news(raw)
            cands == Candidates(SignificantNews(news, ml))
            d == [NoDigest EXCEPT !.id = nDigests + 1, !.status = "building",
                                  !.categories = cats]
        IN  /\ nDigests' = nDigests + 1
            /\ max_items' = [max_items EXCEPT ![r] = m]
            /\ lookup' = [lookup EXCEPT ![r] = NoLookup]
            /\ fusion' = [fusion EXCEPT ![r] = NoFusion]
            /\ opps' = [opps EXCEPT ![r] = <<>>]
            /\ signals' = [signals EXCEPT ![r] = <<>>]
            /\ UNCHANGED <<now, history, pin, pout, delivered>>
            /\ IF news # <<>> /\ ml = "load_error"
               THEN /\ pending' = [pending EXCEPT ![r] = <<>>]
                    /\ NewsRaises(r, d, "model_load", m)
               ELSE IF cands = <<>>
               THEN /\ pending' = [pending EXCEPT ![r] = <<>>]
                    /\ NewsReturns(r, d, <<>>, m)
               ELSE /\ pending' = [pending EXCEPT ![r] = cands]
                    /\ lastRun' = [lastRun EXCEPT ![r] =
                           [NoRun EXCEPT !.generator = "news", !.status = "running"]]
                    /\ emitted' = emitted
                    /\ digest' = [digest EXCEPT ![r] = d]
                    /\ pc' = [pc EXCEPT ![r] = "check"]

\* one pass of the extraction loop: the duplicate check of the next candidate
CheckStep(r) ==
    /\ pc[r] = "check"
    /\ \E db_ok \in BOOLEAN :
        LET c == Head(pending[r])
            rest == Tail(pending[r])
            res == is_duplicate_signal(history, c.symbol, c.sentiment_label, now, db_ok)
            opps2 == IF res = "False" THEN Append(opps[r], c) ELSE opps[r]
        IN  /\ lookup' = [lookup EXCEPT ![r] =
                   [symbol |-> c.symbol, signal_type |-> c.sentiment_label, at |-> now,
                    rows |-> Cardinality(RowsOf(history, c.symbol, c.sentiment_label)),
                    live |-> Cardinality({i \in RowsOf(history, c.symbol, c.sentiment_label) :
                                             now <= history[i].expires_at}),
                    result |-> res]]
            /\ UNCHANGED <<now, history, max_items, signals, fusion, nDigests, pin, pout, delivered>>
            /\ IF res \in {"db_error", "MultipleResultsFound"}
               THEN /\ pending' = [pending EXCEPT ![r] = <<>>]
                    /\ opps' = [opps EXCEPT ![r] = <<>>]
                    /\ NewsRaises(r, digest[r], "duplicate_lookup", max_items[r])
               ELSE IF rest = <<>> /\ opps2 = <<>>
               THEN /\ pending' = [pending EXCEPT ![r] = <<>>]
                    /\ opps' = [opps EXCEPT ![r] = <<>>]
                    /\ NewsReturns(r, digest[r], <<>>, max_items[r])
               ELSE /\ pending' = [pending EXCEPT ![r] = rest]
                    /\ opps' = [opps EXCEPT ![r] = opps2]
                    /\ pc' = [pc EXCEPT ![r] = IF rest = <<>> THEN "create" ELSE "check"]
                    /\ UNCHANGED <<lastRun, digest, emitted>>

\* MarketDataService.get_comprehensive_analysis as the provider sees it: every
\* call goes out to the provider, whatever was asked before
get_comprehensive_analysis(fetched, symbol) == Append(fetched, symbol)

\* "if signal:" in the validation loop, the test before append and record
SignalCreated_always(result) == TRUE

SignalCreated(result) == result = "signal"

\* one pass of the validation loop up to the commit: market data arrives,
\* _create_signal_from_opportunity runs, a signal is appended
CreateStep(r, env) ==
    /\ pc[r] = "create"
    /\ \E md \in env.market :
        LET opp == Head(opps[r])
            out == ND_create_signal_from_opportunity(opp, md)
        IN  /\ fusion' = [fusion EXCEPT ![r] =
                   [mode |-> "news", news |-> opp.news_sentiment, tech |-> out.tech,
                    combined |-> out.combined, result |-> out.result,
                    fetched |-> get_comprehensive_analysis(fusion[r].fetched, opp.symbol)]]
            /\ UNCHANGED <<now, history, max_items, pending, lookup, nDigests, pin, pout, delivered>>
            /\ IF SignalCreated(out.result)
               THEN /\ signals' = [signals EXCEPT ![r] = Append(signals[r], out.signal)]
                    /\ pc' = [pc EXCEPT ![r] = "record"]
                    /\ UNCHANGED <<opps, lastRun, digest, emitted>>
               ELSE IF Tail(opps[r]) # <<>>
               THEN /\ opps' = [opps EXCEPT ![r] = Tail(opps[r])]
                    /\ UNCHANGED <<signals, pc, lastRun, digest, emitted>>
               ELSE /\ opps' = [opps EXCEPT ![r] = <<>>]
                    /\ signals' = [signals EXCEPT ![r] = <<>>]
                    /\ NewsReturns(r, digest[r], signals[r], max_items[r])

\* _record_signal_history: the commit succeeds, or fails and is caught by the
\* loop's except; then the loop goes on or the lastRun ends
RecordStep(r) ==
    /\ pc[r] = "record"
    /\ \E db_ok \in BOOLEAN :
        /\ history' = IF db_ok
                      THEN Append(history, HistoryRow(Head(opps[r]), now, digest[r].id))
                      ELSE history
        /\ UNCHANGED <<now, max_items, pending, lookup, fusion, nDigests, pin, pout, delivered>>
        /\ IF Tail(opps[r]) # <<>>
           THEN /\ opps' = [opps EXCEPT ![r] = Tail(opps[r])]
                /\ pc' = [pc EXCEPT ![r] = "create"]
                /\ UNCHANGED <<signals, lastRun, digest, emitted>>
           ELSE /\ opps' = [opps EXCEPT ![r] = <<>>]
                /\ signals' = [signals EXCEPT ![r] = <<>>]
                /\ NewsReturns(r, digest[r], signals[r], max_items[r])

\* the fallback: SignalGenerator.generate_signals over the watchlist, then the
\* demo data when it has nothing
TechRun(r, env) ==
    /\ pc[r] = "tech"
    /\ \E inputs \in [1..Len(DEFAULT_WATCHLIST) -> env.watch] :
        LET produced == SG_produced(inputs)
            result == SortAndLimit(produced, max_items[r])
        IN  /\ lastRun' = [lastRun EXCEPT ![r] =
                   [generator |-> "technical", status |-> "returned", cause |-> "",
                    produced |-> produced, result |-> result,
                    analyzed |-> SG_analyzed(inputs)]]
            /\ digest' = [digest EXCEPT ![r] = DigestAfterFallback(digest[r], result, max_items[r])]
            /\ pc' = [pc EXCEPT ![r] = "ctx"]
            /\ UNCHANGED <<now, history, max_items, pending, opps, signals, lookup, fusion,
                           emitted, nDigests, pin, pout, delivered>>

\* sentiment_score of an item is round(combined_score, 2): its direction
Direction(item) ==
    IF item.combined > 0 THEN "positive"
    ELSE IF item.combined < 0 THEN "negative" ELSE "neutral"

\* what a returned digest adds to the record of delivered generated items
Deliveries(d, at) ==
    IF d.source \in {"news", "technical"}
    THEN {[symbol |-> d.items[i].symbol, signal_type |-> d.items[i].signal_type,
           direction |-> Direction(d.items[i]), at |-> at, digest |-> d.id,
           source |-> d.source] : i \in DOMAIN d.items}
    ELSE {}

\* market context and VIX regime (both swallow their errors), then the
\* DigestResponse is returned and the request's generator objects are gone
ReturnDigest(r) ==
    /\ pc[r] = "ctx"
    /\ digest' = [digest EXCEPT ![r].status = "returned"]
    /\ pc' = [pc EXCEPT ![r] = "idle"]
    /\ lookup' = [lookup EXCEPT ![r] = NoLookup]
    /\ fusion' = [fusion EXCEPT ![r] = NoFusion]
    /\ lastRun' = [lastRun EXCEPT ![r] = NoRun]
    /\ delivered' = delivered \cup Deliveries(digest[r], now)
    /\ UNCHANGED <<now, history, max_items, pending, opps, signals,
                   emitted, nDigests, pin, pout>>

\* a day passes between requests; the clock starts at the first request
Tick ==
    /\ now < MaxDay
    /\ nDigests > 0
    /\ \A r \in Slots : pc[r] = "idle"
    /\ now' = now + 1
    /\ UNCHANGED <<history, pc, max_items, pending, opps, signals, lookup, fusion,
                   lastRun, digest, emitted, nDigests, pin, pout, delivered>>

NoPure ==
    [fn |-> "none", snap |-> NoSnapshot, a |-> 0, b |-> 0,
     has_social |-> FALSE, mentions |-> 0, mentions_24h_ago |-> 0, social |-> 0,
     found |-> <<>>, min_confidence |-> 0, feed_ok |-> TRUE, entries |-> <<>>,
     probs |-> [neg |-> 0, neu |-> 0, pos |-> 0]]
NoPureOut ==
    [calls |-> 0, nd_score |-> 0, sg_score |-> 0, nd_again |-> 0, sg_again |-> 0,
     nd_cat_a |-> "", nd_cat_b |-> "", sg_cat_a |-> "", sg_cat_b |-> "",
     nd_result |-> "", sg_result |-> "", nd_priority |-> "", sg_priority |-> "",
     hype |-> 0, symbols |-> <<>>, articles |-> <<>>, fetch |-> "",
     nd_pair |-> <<>>, sg_pair |-> <<>>, nd_out |-> <<>>]

InitRun ==
    /\ now = 0
    /\ history = <<>>
    /\ pc = [r \in Slots |-> "idle"]
    /\ max_items = [r \in Slots |-> 0]
    /\ pending = [r \in Slots |-> <<>>]
    /\ opps = [r \in Slots |-> <<>>]
    /\ signals = [r \in Slots |-> <<>>]
    /\ lookup = [r \in Slots |-> NoLookup]
    /\ fusion = [r \in Slots |-> NoFusion]
    /\ lastRun = [r \in Slots |-> NoRun]
    /\ digest = [r \in Slots |-> NoDigest]
    /\ emitted = {}
    /\ nDigests = 0
    /\ delivered = {}

Init ==
    /\ InitRun
    /\ pin = NoPure
    /\ pout = NoPureOut

Request(r, env) ==
    \/ StartDigest(r, env)
    \/ CheckStep(r)
    \/ CreateStep(r, env)
    \/ RecordStep(r)
    \/ TechRun(r, env)
    \/ ReturnDigest(r)

(***************************************************************************)
(* One request: ranking, gates, failures, the fallback chain               *)
(***************************************************************************)
RunArticles ==
    [symbols : {<<"AAPL">>},
     probs : {[neg |-> 20, neu |-> 80, pos |-> 900],
              [neg |-> 20, neu |-> 600, pos |-> 380],
              [neg |-> 300, neu |-> 300, pos |-> 400]},
     published : PublishedTimes]
    \cup {[symbols |-> <<"TSLA">>, probs |-> [neg |-> 20, neu |-> 80, pos |-> 900],
           published |-> 0]}

RunMarket ==
    {[kind |-> "no_analysis", snap |-> NoSnapshot],
     [kind |-> "ok", snap |-> Snap(TRUE, 250, "bullish", TRUE, TRUE, FALSE, TRUE)],
     [kind |-> "ok", snap |-> Snap(TRUE, 750, "bearish", FALSE, FALSE, TRUE, TRUE)],
     [kind |-> "ok", snap |-> NoSnapshot]}

\* what _analyze_symbol meets for one watchlist symbol: the market data, the
\* symbol's news sentiment, and whether building the item raises
RunWatch ==
    {[md |-> m, news_ok |-> TRUE, news |-> <<>>, fault |-> FALSE] : m \in RunMarket}
    \cup {[md |-> [kind |-> "ok",
                   snap |-> Snap(TRUE, 500, "bullish", FALSE, FALSE, FALSE, FALSE)],
           news_ok |-> TRUE, news |-> n, fault |-> FALSE] : n \in {<<>>, <<-700, -500>>}}
    \cup {[md |-> [kind |-> "ok",
                   snap |-> Snap(TRUE, 250, "bullish", TRUE, TRUE, FALSE, TRUE)],
           news_ok |-> TRUE, news |-> <<800>>, fault |-> TRUE],
          \* the news lookup for the symbol fails
          [md |-> [kind |-> "ok",
                   snap |-> Snap(TRUE, 250, "bullish", TRUE, TRUE, FALSE, TRUE)],
           news_ok |-> FALSE, news |-> <<>>, fault |-> FALSE]}

\* what _create_signal_from_opportunity can get back for a symbol: also an
\* analysis whose price entry holds no current price
RunQuotes == RunMarket \cup {[kind |-> "no_price", snap |-> NoSnapshot]}

\* a request to the custom endpoint with a category list
RunEnv ==
    [batches |-> SeqsUpTo(RunArticles, MaxArticles), market |-> RunQuotes,
     watch |-> RunWatch, limit |-> 1, categories |-> {<<"trade_alert">>}]

Next == Request(1, RunEnv)

Spec == Init /\ [][Next]_vars

(***************************************************************************)
(* Requests one after another while days pass: the dedup window            *)
(***************************************************************************)
HistoryArticles ==
    [symbols : {<<"AAPL">>},
     probs : {[neg |-> 20, neu |-> 80, pos |-> 900], [neg |-> 900, neu |-> 80, pos |-> 20]},
     published : {0}]

HistoryMarket ==
    {[kind |-> "no_analysis", snap |-> NoSnapshot],
     [kind |-> "ok", snap |-> Snap(TRUE, 250, "bullish", TRUE, TRUE, FALSE, TRUE)]}

HistoryWatch ==
    [md : HistoryMarket, news_ok : {TRUE}, news : {<<>>}, fault : {FALSE}]

HistoryEnv ==
    [batches |-> SeqsUpTo(HistoryArticles, MaxArticles), market |-> HistoryMarket,
     watch |-> HistoryWatch, limit |-> MaxDigests, categories |-> {<<>>}]

NextHistory ==
    \/ Tick
    \/ Request(1, HistoryEnv)

SpecHistory == Init /\ [][NextHistory]_vars

(***************************************************************************)
(* Two requests at once against the same History store                     *)
(***************************************************************************)
ConcEnv ==
    [batches |-> SeqsUpTo(HistoryArticles, 1), market |-> HistoryMarket,
     watch |-> HistoryWatch, limit |-> 2, categories |-> {<<>>}]

NextConc ==
    \/ Request(1, ConcEnv)
    \/ Request(2, ConcEnv)

SpecConc == Init /\ [][NextConc]_vars

(***************************************************************************)
(* The scoring functions on their own                                      *)
(***************************************************************************)
\* combined scores, ten-thousandths, on and around the cut points
ScoreSamples ==
    {-10000, -7000, -6001, -6000, -5000, -4001, -4000, -3000, 0,
     3000, 4000, 4001, 5000, 6000, 6001, 7000, 10000}

PureInputs ==
    {[NoPure EXCEPT !.fn = "technical_score", !.snap = s] : s \in TechSnapshots}
    \cup {[NoPure EXCEPT !.fn = "category", !.a = a, !.b = b] :
              a \in ScoreSamples, b \in ScoreSamples}

\* rsi 25, bullish MACD crossover, above EMA200, golden cross, high volume;
\* the flags the scenario leaves open take both values
ScenarioSnapshots ==
    {s \in TechSnapshots :
        /\ s.has_rsi /\ s.rsi = 250 /\ s.macd = "bullish"
        /\ s.has_mas /\ s.above_ema_200 /\ s.golden_cross
        /\ s.has_volume /\ s.high_volume}

\* non-negative sentiment scores, thousandths
ScenarioSentiments == {0, 20, 30, 300, 450, 451, 500, 880, 1000}

FusionInputs ==
    {[NoPure EXCEPT !.fn = "fusion", !.snap = s, !.a = n] :
        s \in ScenarioSnapshots, n \in ScenarioSentiments}

MentionCounts == {0, 50, 100, 200, 1000}
SentimentSamples == {-1000, 0, 1000}

HypeInputs ==
    {[NoPure EXCEPT !.fn = "hype", !.has_social = h, !.mentions = m,
                    !.mentions_24h_ago = p, !.social = so, !.a = n] :
        h \in {TRUE}, m \in MentionCounts, p \in {0, 100, 200},
        so \in SentimentSamples, n \in SentimentSamples}
    \cup {[NoPure EXCEPT !.fn = "hype", !.a = n] : n \in SentimentSamples}

\* a second ticker in the same article
OtherFindings ==
    {[symbol |-> "TSLA", by_ticker |-> TRUE, ticker_where |-> "repeated",
      by_company |-> FALSE, company_where |-> "once"],
     [symbol |-> "TSLA", by_ticker |-> FALSE, ticker_where |-> "once",
      by_company |-> TRUE, company_where |-> "repeated"]}

ExtractInputs ==
    {[NoPure EXCEPT !.fn = "extract", !.found = fs, !.min_confidence = m] :
        fs \in {<<f>> : f \in Findings} \cup {<<f, g>> : f \in Findings, g \in OtherFindings},
        m \in {500, 600, 800}}

\* combined scores around the priority cut points, ML confidences around
\* 0.8, and the three shapes of the volume data
PriorityInputs ==
    {[NoPure EXCEPT !.fn = "priority", !.a = a, !.b = c, !.snap = v] :
        a \in {-8000, -7000, -5001, 0, 5000, 5001, 7000, 7001, 10000},
        c \in {500, 800, 801, 1000},
        v \in {NoSnapshot,
               Snap(FALSE, 0, "missing", FALSE, FALSE, FALSE, FALSE),
               Snap(FALSE, 0, "missing", FALSE, FALSE, FALSE, TRUE)}}

\* feed entries: a date that feedparser parsed (age in days), none, or one it
\* could not parse; titles and summaries empty, blank, plain or marked up
FeedEntries ==
    [date : {"parsed"}, age : {0, 2}, title : {"", " ", "title"},
     summary : {"", "<b>text</b>"}]
    \cup [date : {"missing", "unparseable"}, age : {0}, title : {"", "title"},
          summary : {"", "<b>text</b>"}]

GoodEntry == [date |-> "parsed", age |-> 1, title |-> "title", summary |-> "text"]

RssInputs ==
    {[NoPure EXCEPT !.fn = "rss", !.feed_ok = ok, !.entries = es] :
        ok \in BOOLEAN,
        es \in {<<e>> : e \in FeedEntries} \cup {<<e, GoodEntry>> : e \in FeedEntries}}

\* two articles about one symbol under the same market data; sentiment
\* scores chosen on both sides of the category cut points
PairSentiments == {300, 301, 450, 451, 880}

PairInputs ==
    {[NoPure EXCEPT !.fn = "pair", !.snap = s, !.a = a, !.b = b] :
        s \in ScenarioSnapshots, a \in PairSentiments, b \in PairSentiments}

\* FinBERT outputs on and around the significance filter, both directions
ConfirmProbs ==
    {[neg |-> 20, neu |-> 80, pos |-> 900], [neg |-> 900, neu |-> 80, pos |-> 20],
     [neg |-> 350, neu |-> 0, pos |-> 650], [neg |-> 650, neu |-> 0, pos |-> 350],
     [neg |-> 360, neu |-> 0, pos |-> 640], [neg |-> 500, neu |-> 0, pos |-> 500],
     [neg |-> 100, neu |-> 500, pos |-> 400]}

\* every article against every technical snapshot
ConfirmInputs ==
    {[NoPure EXCEPT !.fn = "confirm", !.probs = p, !.snap = s] :
        p \in ConfirmProbs, s \in TechSnapshots}

InitPure ==
    /\ InitRun
    /\ pin \in PureInputs \cup FusionInputs \cup HypeInputs \cup ExtractInputs
                \cup PriorityInputs \cup RssInputs \cup PairInputs
                \cup ConfirmInputs
    /\ pout = NoPureOut

\* both _calculate_technical_score, called once and then once more
CalcTechnicalScore ==
    /\ pin.fn = "technical_score"
    /\ pout.calls < 2
    /\ pout' = IF pout.calls = 0
               THEN [pout EXCEPT !.calls = 1,
                                 !.nd_score = ND_calculate_technical_score(pin.snap),
                                 !.sg_score = SG_calculate_technical_score(pin.snap)]
               ELSE [pout EXCEPT !.calls = 2,
                                 !.nd_again = ND_calculate_technical_score(pin.snap),
                                 !.sg_again = SG_calculate_technical_score(pin.snap)]
    /\ UNCHANGED <<pin, runVars>>

\* both _determine_category, on the two scores
DetermineCategory ==
    /\ pin.fn = "category"
    /\ pout.calls = 0
    /\ pout' = [pout EXCEPT !.calls = 1,
                            !.nd_cat_a = ND_determine_category(pin.a),
                            !.nd_cat_b = ND_determine_category(pin.b),
                            !.sg_cat_a = SG_determine_category(pin.a),
                            !.sg_cat_b = SG_determine_category(pin.b)]
    /\ UNCHANGED <<pin, runVars>>

\* the technical score and the fusion of both generators on one snapshot and
\* one sentiment: _create_signal_from_opportunity and _analyze_symbol
FuseScenario ==
    /\ pin.fn = "fusion"
    /\ pout.calls = 0
    /\ LET md == [kind |-> "ok", snap |-> pin.snap]
           nd == ND_create_signal_from_opportunity(
                     [symbol |-> "AAPL", news_sentiment |-> pin.a, ml_confidence |-> 900,
                      sentiment_label |-> "positive", published |-> 0], md)
           sg == SG_analyze_symbol("AAPL", [md |-> md, news_ok |-> TRUE, news |-> <<pin.a>>, fault |-> FALSE])
       IN  pout' = [pout EXCEPT !.calls = 1,
                                !.nd_score = ND_calculate_technical_score(pin.snap),
                                !.sg_score = SG_calculate_technical_score(pin.snap),
                                !.nd_result = nd.result,
                                !.sg_result = sg.result,
                                !.nd_cat_a = nd.signal.category,
                                !.sg_cat_a = sg.signal.category]
    /\ UNCHANGED <<pin, runVars>>

CalcHypeScore ==
    /\ pin.fn = "hype"
    /\ pout.calls = 0
    /\ pout' = [pout EXCEPT !.calls = 1,
                            !.hype = calculate_hype_score(pin.has_social, pin.mentions,
                                         pin.mentions_24h_ago, pin.social, pin.a)]
    /\ UNCHANGED <<pin, runVars>>

ExtractSymbols ==
    /\ pin.fn = "extract"
    /\ pout.calls = 0
    /\ pout' = [pout EXCEPT !.calls = 1,
                            !.symbols = extract_symbols(pin.found, pin.min_confidence)]
    /\ UNCHANGED <<pin, runVars>>

DeterminePriority ==
    /\ pin.fn = "priority"
    /\ pout.calls = 0
    /\ pout' = [pout EXCEPT !.calls = 1,
                            !.nd_priority = ND_determine_priority(pin.a, pin.b),
                            !.sg_priority = SG_determine_priority(pin.a, pin.snap)]
    /\ UNCHANGED <<pin, runVars>>

\* fetch_all_news over one feed, 24 hours back
FetchNews ==
    /\ pin.fn = "rss"
    /\ pout.calls = 0
    /\ pout' = [pout EXCEPT !.calls = 1,
                            !.articles = fetch_all_news(
                                fetch_rss_feed(pin.feed_ok, pin.entries, now, 1)),
                            !.fetch = "returned"]
    /\ UNCHANGED <<pin, runVars>>

\* each generator builds a signal from each of two sentiment scores
FusePair ==
    /\ pin.fn = "pair"
    /\ pout.calls = 0
    /\ LET md == [kind |-> "ok", snap |-> pin.snap]
           nd(n) == ND_create_signal_from_opportunity(
                        [symbol |-> "AAPL", news_sentiment |-> n, ml_confidence |-> 900,
                         sentiment_label |-> "positive", published |-> 0], md)
           sg(n) == SG_analyze_symbol("AAPL",
                        [md |-> md, news_ok |-> TRUE, news |-> <<n>>, fault |-> FALSE])
       IN  pout' = [pout EXCEPT !.calls = 1,
                                !.nd_pair = SelectSeq(<<nd(pin.a), nd(pin.b)>>, IsSignal),
                                !.sg_pair = SelectSeq(<<sg(pin.a), sg(pin.b)>>, IsSignal)]
    /\ UNCHANGED <<pin, runVars>>

\* one article through the news-driven generator: sentiment, significance
\* filter, candidate, technical confirmation
ConfirmWithTechnicals ==
    /\ pin.fn = "confirm"
    /\ pout.calls = 0
    /\ LET article == [symbols |-> <<"AAPL">>, probs |-> pin.probs, published |-> 0]
           cands == Candidates(SignificantNews(<<article>>, "ok"))
           outs == [i \in 1..Len(cands) |->
                       ND_create_signal_from_opportunity(cands[i],
                           [kind |-> "ok", snap |-> pin.snap])]
       IN  pout' = [pout EXCEPT !.calls = 1, !.nd_out = SelectSeq(outs, IsSignal)]
    /\ UNCHANGED <<pin, runVars>>

NextPure ==
    \/ ExtractSymbols
    \/ ConfirmWithTechnicals
    \/ FusePair
    \/ FetchNews
    \/ DeterminePriority
    \/ CalcTechnicalScore
    \/ DetermineCategory
    \/ FuseScenario
    \/ CalcHypeScore

SpecPure == InitPure /\ [][NextPure]_vars

(***************************************************************************)
(* Properties                                                              *)
(***************************************************************************)
SameKey(x, y) == x.symbol = y.symbol /\ x.signal_type = y.signal_type

\* C1: over any sequence of news-driven runs and any number of articles per
\* run, two signals emitted for the same (symbol, direction) are at least a
\* full dedup window (7 days) apart.
C1_OnePerWindow ==
    \A e1 \in emitted : \A e2 \in emitted :
        (e1 # e2 /\ SameKey(e1, e2)) => Abs(e1.at - e2.at) >= 7

\* C2: two runs against the same History store never both emit and record a
\* signal for the same (symbol, direction).
C2_OneRunEmits ==
    \A e1 \in emitted : \A e2 \in emitted :
        (e1.digest # e2.digest /\ SameKey(e1, e2)) =>
            ~(\E i \in DOMAIN history : \E j \in DOMAIN history :
                /\ history[i].run = e1.digest /\ SameKey(history[i], e1)
                /\ history[j].run = e2.digest /\ SameKey(history[j], e2))

\* C3: the fusion threshold gate. News-driven mode fuses 0.7*news + 0.3*tech
\* and emits nothing when |combined| < 0.3; watchlist mode fuses
\* 0.6*tech + 0.4*news and emits nothing when |combined| < 0.15; so every
\* emitted signal is at or above its mode's threshold.
C3_ThresholdGate ==
    \A r \in Slots :
        /\ (fusion[r].mode = "news" /\ fusion[r].result # "no_data") =>
               /\ fusion[r].combined = 7 * fusion[r].news + 3 * fusion[r].tech
               /\ (Abs(fusion[r].combined) < 3000 => fusion[r].result # "signal")
        /\ \A i \in DOMAIN lastRun[r].analyzed :
               LET a == lastRun[r].analyzed[i]
               IN  a.result # "no_data" =>
                       /\ a.combined = 6 * a.tech + 4 * a.news
                       /\ (Abs(a.combined) < 1500 => a.result # "signal")
        /\ \A i \in DOMAIN signals[r] : Abs(signals[r][i].combined) >= 3000
        /\ \A i \in DOMAIN lastRun[r].result :
               Abs(lastRun[r].result[i].combined) >=
                   (IF lastRun[r].generator = "news" THEN 3000 ELSE 1500)

C3_Witness ==
    \E r \in Slots :
        /\ fusion[r].mode = "news"
        /\ fusion[r].result = "below_threshold"
        /\ fusion[r].combined # 0
        /\ fusion[r].tech # 0

\* C4: once _record_signal_history has written an entry for (symbol,
\* direction), _is_duplicate_signal reports True while an entry is within its
\* 7-day expiry and False when every entry has expired.
C4_RoundTrip ==
    \A r \in Slots :
        (lookup[r].result \notin {"none", "db_error"} /\ lookup[r].rows >= 1) =>
            /\ (lookup[r].live >= 1 => lookup[r].result = "True")
            /\ (lookup[r].live = 0 => lookup[r].result = "False")

\* C5: an error in a per-symbol step of a run (here the duplicate lookup) is
\* caught and only that opportunity is skipped: it never ends the run.
C5_LookupErrorIsolated ==
    \A r \in Slots :
        lastRun[r].status = "raised" => lastRun[r].cause # "duplicate_lookup"

\* C6: generate_daily_digest never raises; for max_items >= 1 the returned
\* list is non-empty with at most max_items items; when the news-driven
\* generator raised, or both generators returned nothing, the items are the
\* demo dataset.
C6_DigestNeverFails ==
    \A r \in Slots :
        LET d == digest[r]
            tried == {d.tried[i] : i \in DOMAIN d.tried}
        IN  /\ d.status # "raised"
            /\ (d.status = "returned" /\ max_items[r] >= 1) =>
                   /\ d.items # <<>>
                   /\ Len(d.items) <= max_items[r]
            /\ (d.status = "returned"
                /\ ("news:raised" \in tried
                    \/ ("news:empty" \in tried /\ "technical:empty" \in tried))) =>
                   /\ d.source = "demo"
                   /\ Len(d.items) = Min2(max_items[r], Len(demo_signals))
                   /\ \A i \in DOMAIN d.items : d.items[i].source = "demo"
                   /\ (d.items # <<>> => d.items[1].symbol = "NVDA")

C6_Witness ==
    \E r \in Slots :
        /\ digest[r].status = "returned"
        /\ max_items[r] = 2
        /\ digest[r].tried = <<"news:raised", "demo">>
        /\ Len(digest[r].items) = 2

\* C7: for any max_signals >= 0 the list a generator returns is sorted by
\* confidence_score, non-increasing, has at most max_signals entries, and
\* holds the highest-confidence signals the run produced.
C7_SortedTopK ==
    \A r \in Slots :
        LET p == lastRun[r].produced
            res == lastRun[r].result
        IN  lastRun[r].status = "returned" =>
                /\ \A i \in DOMAIN res : \A j \in DOMAIN res :
                       i < j => res[i].confidence_score >= res[j].confidence_score
                /\ Len(res) = Min2(Len(p), max_items[r])
                /\ \E f \in [DOMAIN res -> DOMAIN p] :
                       /\ \A i \in DOMAIN res : \A j \in DOMAIN res : f[i] = f[j] => i = j
                       /\ \A i \in DOMAIN res : res[i] = p[f[i]]
                       /\ \A k \in DOMAIN p :
                              (\A i \in DOMAIN res : f[i] # k) =>
                                  \A i \in DOMAIN res :
                                      p[k].confidence_score <= res[i].confidence_score

C7_Witness ==
    \E r \in Slots :
        /\ lastRun[r].status = "returned"
        /\ max_items[r] = 1
        /\ Len(lastRun[r].produced) >= 2
        /\ lastRun[r].produced[1].confidence_score < lastRun[r].produced[2].confidence_score
        /\ lastRun[r].result = <<lastRun[r].produced[2]>>

\* C8: among the signals of one news-driven run with equal confidence_score,
\* the one whose article was published more recently comes first.
C8_TiesByRecency ==
    \A r \in Slots :
        (lastRun[r].generator = "news" /\ lastRun[r].status = "returned") =>
            \A i \in DOMAIN lastRun[r].result : \A j \in DOMAIN lastRun[r].result :
                (i < j /\ lastRun[r].result[i].confidence_score
                              = lastRun[r].result[j].confidence_score) =>
                    lastRun[r].result[i].published >= lastRun[r].result[j].published

C8_Witness ==
    \E r \in Slots :
        /\ lastRun[r].generator = "news" /\ lastRun[r].status = "returned"
        /\ Len(lastRun[r].result) = 2
        /\ lastRun[r].result[1].confidence_score = lastRun[r].result[2].confidence_score
        /\ lastRun[r].result[1].symbol = "AAPL" /\ lastRun[r].result[1].published = 1
        /\ lastRun[r].result[2].symbol = "TSLA" /\ lastRun[r].result[2].published = 0

\* C9: category rank (market_context < watch_list < trade_alert) never
\* decreases as |combined| grows, in both generators, with the cuts at
\* |combined| > 0.6 for trade_alert and |combined| > 0.4 for watch_list.
C9_CategoryMonotonic ==
    (pin.fn = "category" /\ pout.calls = 1) =>
        /\ Abs(pin.a) <= Abs(pin.b) =>
               /\ CategoryRank(pout.nd_cat_a) <= CategoryRank(pout.nd_cat_b)
               /\ CategoryRank(pout.sg_cat_a) <= CategoryRank(pout.sg_cat_b)
        /\ \A c \in {pout.nd_cat_a, pout.sg_cat_a} :
               /\ c = "trade_alert" <=> Abs(pin.a) > 6000
               /\ c = "watch_list" <=> (Abs(pin.a) > 4000 /\ Abs(pin.a) <= 6000)
               /\ c = "market_context" <=> Abs(pin.a) <= 4000

C9_Witness ==
    /\ pin.fn = "category" /\ pout.calls = 1
    /\ pin.a = -4001 /\ pin.b = -6001
    /\ pout.nd_cat_a = "watch_list" /\ pout.nd_cat_b = "trade_alert"
    /\ pout.sg_cat_a = "watch_list" /\ pout.sg_cat_b = "trade_alert"

C11_ScenarioAsClaimed ==
    (pin.fn = "fusion" /\ pout.calls = 1) =>
        /\ pout.nd_score = 1000 /\ pout.sg_score = 1000
        /\ pout.nd_result = "signal" /\ pout.nd_cat_a = "trade_alert"
        /\ pout.sg_result = "signal" /\ pout.sg_cat_a = "trade_alert"

\* C11 (amended): for those inputs the news-driven technical score is 0.95
\* (0.3+0.2+0.15+0.2+0.1); the watchlist one is 0.8 (0.3+0.25+0.1+0.15) plus
\* 0.1 for each of EMA20/EMA50 the price is above and 0.15 when the volume
\* ratio exceeds 1.5, clamped to 1.0.  Fused with a sentiment >= 0 the
\* watchlist signal is trade_alert only when 0.6*tech + 0.4*news > 0.6 and
\* watch_list otherwise; the news-driven one emits nothing when
\* 0.7*news + 0.3*tech < 0.3, and is trade_alert only when that exceeds 0.6,
\* watch_list when it exceeds 0.4 and market_context below.
C11_ScenarioAmended ==
    (pin.fn = "fusion" /\ pout.calls = 1) =>
        LET extra == (IF pin.snap.above_ema_20 THEN 100 ELSE 0)
                     + (IF pin.snap.above_ema_50 THEN 100 ELSE 0)
                     + (IF pin.snap.ratio_above_1_5 THEN 150 ELSE 0)
            nd_combined == 7 * pin.a + 3 * 950
            sg_combined == 6 * pout.sg_score + 4 * pin.a
        IN  /\ pout.nd_score = 950
            /\ pout.sg_score = Min2(1000, 800 + extra)
            /\ pout.sg_result = "signal"
            /\ pout.sg_cat_a = (IF sg_combined > 6000 THEN "trade_alert" ELSE "watch_list")
            /\ pout.nd_result = (IF nd_combined < 3000 THEN "below_threshold" ELSE "signal")
            /\ pout.nd_result = "signal" =>
                   pout.nd_cat_a = (IF nd_combined > 6000 THEN "trade_alert"
                                    ELSE IF nd_combined > 4000 THEN "watch_list"
                                    ELSE "market_context")

C11_Witness ==
    /\ pin.fn = "fusion" /\ pout.calls = 1
    /\ pin.a = 0
    /\ ~pin.snap.above_ema_20 /\ ~pin.snap.above_ema_50 /\ ~pin.snap.ratio_above_1_5
    /\ pout.sg_score = 800 /\ pout.sg_cat_a = "watch_list"
    /\ pout.nd_score = 950 /\ pout.nd_result = "below_threshold"

\* C12: the ML sentiment scorer never propagates an exception into the
\* pipeline: no generate_signals run ends with an exception that came out of
\* batch_analyze_sentiment (model loading included).
C12_ScorerNeverRaises ==
    \A r \in Slots :
        lastRun[r].status = "raised" => lastRun[r].cause # "model_load"

\* C13: calculate_hype_score returns a value in [0, 1] for any non-negative
\* mention counts, any social and news sentiment in [-1, 1], and without
\* social data.
C13_HypeInUnitInterval ==
    (pin.fn = "hype" /\ pout.calls = 1) => (0 <= pout.hype /\ pout.hype <= 1000)

\* C14: absence propagates as absence.  When the news lookup for a watchlist
\* symbol failed, the symbol yields no signal or its combined score is made of
\* the inputs that were obtained (the technical score alone), never of a zero
\* put in place of the missing news score.
C14_AbsenceNotZero ==
    \A r \in Slots : \A i \in DOMAIN lastRun[r].analyzed :
        LET a == lastRun[r].analyzed[i]
        IN  (~a.news_obtained /\ a.result = "signal") => a.combined = 10 * a.tech

\* C15: extract_symbols returns at most one candidate per ticker, and a
\* ticker found both by a ticker pattern and by a company name is reported
\* with the larger of the two methods' confidences.
C15_MaxConfidencePerTicker ==
    (pin.fn = "extract" /\ pout.calls = 1) =>
        /\ \A i \in DOMAIN pout.symbols : \A j \in DOMAIN pout.symbols :
               pout.symbols[i].symbol = pout.symbols[j].symbol => i = j
        /\ \A k \in DOMAIN pin.found :
               LET f == pin.found[k]
                   best == Max2(TickerConfidence(f), CompanyConfidence(f))
               IN  (f.by_ticker /\ f.by_company /\ best >= pin.min_confidence) =>
                       \E i \in DOMAIN pout.symbols :
                           /\ pout.symbols[i].symbol = f.symbol
                           /\ pout.symbols[i].confidence = best

\* C16: a digest generated with a non-empty categories list holds only items
\* whose category is in that list.
C16_CategoryFilter ==
    \A r \in Slots :
        (digest[r].status = "returned" /\ digest[r].categories # <<>>) =>
            \A i \in DOMAIN digest[r].items :
                \E k \in DOMAIN digest[r].categories :
                    digest[r].items[i].category = digest[r].categories[k]

\* C17: in both fusion modes a signal has priority high only if |combined|
\* is above 0.7 and the ML confidence is above 0.8 or the high-volume flag is
\* set; a signal that is not high is medium if |combined| is above 0.5 and
\* low otherwise.
C17_PriorityRule ==
    (pin.fn = "priority" /\ pout.calls = 1) =>
        \A p \in {pout.nd_priority, pout.sg_priority} :
            /\ p \in {"high", "medium", "low"}
            /\ p = "high" =>
                   /\ Abs(pin.a) > 7000
                   /\ pin.b > 800 \/ (pin.snap.has_volume /\ pin.snap.high_volume)
            /\ p # "high" => (p = "medium" <=> Abs(pin.a) > 5000)

\* a strong score with high ML confidence and no volume confirmation: high
\* in the news-driven mode, medium in the technical mode
C17_Witness ==
    /\ pin.fn = "priority" /\ pout.calls = 1
    /\ pout.nd_priority = "high"
    /\ pout.sg_priority = "medium"

\* C18: when an opportunity produces no signal (no market data, no current
\* price, combined score below the threshold) the History store is left as
\* it was, the opportunity is dropped from the run, and the run goes on with
\* the next opportunity without fetching its market data again.
C18_NoSignalLeavesHistory ==
    [][\A r \in Slots :
          (pc[r] = "create" /\ fusion'[r].mode = "news" /\ fusion'[r].result # "signal") =>
              /\ history' = history
              /\ pc'[r] # "record"
              /\ opps'[r] = Tail(opps[r])
              /\ \/ signals'[r] = signals[r]
                 \/ lastRun'[r].status = "returned" /\ lastRun'[r].produced = signals[r]]_vars

\* an opportunity has just been dropped below the threshold and the run goes
\* on with the next one; nothing was written
C18_Witness ==
    \E r \in Slots :
        /\ pc[r] = "create"
        /\ fusion[r].mode = "news" /\ fusion[r].result = "below_threshold"
        /\ opps[r] # <<>>
        /\ history = <<>>

\* C19: a feed entry whose publish date is missing or unparseable, or whose
\* title or summary is empty, never appears in the article list returned by
\* fetch_rss_feed / fetch_all_news, and the fetch never raises.
C19_MalformedDiscarded ==
    (pin.fn = "rss" /\ pout.calls = 1) =>
        /\ pout.fetch = "returned"
        /\ \A k \in DOMAIN pout.articles :
               LET e == pin.entries[pout.articles[k].entry]
               IN  /\ e.date = "parsed"
                   /\ e.title # ""
                   /\ e.summary # ""

\* C20: the direction under which a news-driven signal is checked against
\* and recorded in the History store is the sign bucket of the article's
\* sentiment score: positive exactly when the score is above 0, negative
\* exactly when it is below 0, neutral exactly when it is 0.
C20_DirectionIsSign ==
    LET bucket(score) == IF score > 0 THEN "positive"
                         ELSE IF score < 0 THEN "negative" ELSE "neutral"
    IN  /\ \A r \in Slots : \A i \in DOMAIN opps[r] :
               opps[r][i].sentiment_label = bucket(opps[r][i].news_sentiment)
        /\ \A i \in DOMAIN history :
               history[i].signal_type = bucket(history[i].sentiment_score)

\* C21: a signal's confidence_score is |combined| rounded to two decimals,
\* and two signals of the same generator with equal confidence_score have the
\* same category.
C21_CategoryOfConfidence ==
    (pin.fn = "pair" /\ pout.calls = 1) =>
        \A pair \in {pout.nd_pair, pout.sg_pair} :
            \A i \in DOMAIN pair : \A j \in DOMAIN pair :
                /\ pair[i].signal.confidence_score = Round2(Abs(pair[i].signal.combined))
                /\ pair[i].signal.confidence_score = pair[j].signal.confidence_score =>
                       pair[i].signal.category = pair[j].signal.category

\* C22: in both _calculate_technical_score implementations the score after
\* the volume step has the sign of the running total accumulated before it.
C22_VolumeKeepsSign ==
    LET sign(x) == IF x > 0 THEN 1 ELSE IF x < 0 THEN -1 ELSE 0
    IN  (pin.fn = "technical_score" /\ pout.calls = 1) =>
            /\ sign(pout.nd_score) = sign(ND_running_total(pin.snap))
            /\ sign(pout.sg_score) = sign(SG_running_total(pin.snap))

\* C23: generate_daily_digest tries the news-driven generator, then the
\* technical-only generator, then the demo data; demo data are in the digest
\* only after the technical-only generator has been tried.
C23_FallbackOrder ==
    \A r \in Slots :
        /\ digest[r].tried # <<>> =>
               digest[r].tried[1] \in {"news:items", "news:empty", "news:raised"}
        /\ \A i \in DOMAIN digest[r].tried :
               digest[r].tried[i] \in {"technical:items", "technical:empty"} =>
                   i = 2 /\ digest[r].tried[1] \in {"news:empty", "news:raised"}
        /\ digest[r].source = "demo" =>
               /\ Len(digest[r].tried) = 3
               /\ digest[r].tried[2] \in {"technical:empty", "technical:raised"}
               /\ digest[r].tried[3] = "demo"

\* C24: within one generate_signals run, once max_signals (at least one)
\* qualifying signals have been collected, no market-data fetch or analysis is
\* started for another opportunity or watchlist symbol.
C24_EarlyStop ==
    [][\A r \in Slots :
          /\ (/\ pc[r] = "create"
              /\ pc'[r] = "record" \/ opps'[r] # opps[r]
              /\ max_items[r] >= 1) =>
                 Len(signals[r]) < max_items[r]
          /\ (pc[r] = "tech" /\ lastRun'[r].generator = "technical" /\ max_items[r] >= 1) =>
                 \A i \in DOMAIN lastRun'[r].analyzed :
                     Len(SelectSeq(SubSeq(lastRun'[r].analyzed, 1, i - 1), IsSignal))
                         < max_items[r]]_vars

\* C25: during one generate_signals run the market-data provider is asked
\* for a given symbol's analysis at most once, even when several
\* opportunities refer to the same symbol.
C25_OneFetchPerSymbol ==
    \A r \in Slots :
        \A i \in DOMAIN fusion[r].fetched : \A j \in DOMAIN fusion[r].fetched :
            fusion[r].fetched[i] = fusion[r].fetched[j] => i = j

\* C26: every History entry written by a news-driven run (asked for at least
\* one signal) corresponds to a signal in the list that run returned.
C26_HistoryOnlyForReturned ==
    \A r \in Slots :
        (digest[r].id > 0 /\ pc[r] \in {"tech", "ctx", "idle"} /\ max_items[r] >= 1) =>
            \A i \in DOMAIN history :
                history[i].run = digest[r].id =>
                    \E e \in emitted :
                        /\ e.digest = digest[r].id
                        /\ e.symbol = history[i].symbol
                        /\ e.signal_type = history[i].signal_type

\* C27: every signal a news-driven run returned has a History entry for its
\* (symbol, direction) written during that run.
C27_ReturnedHasHistory ==
    \A e \in emitted :
        \E i \in DOMAIN history :
            /\ history[i].run = e.digest
            /\ history[i].symbol = e.symbol
            /\ history[i].signal_type = e.signal_type

\* C28: over every reachable content of the History store and with the
\* database answering, _is_duplicate_signal returns a boolean and never
\* raises, and it returns True exactly when at least one entry with the same
\* symbol and signal_type was created within the past 7 days.
C28_LookupTotal ==
    \A r \in Slots :
        lookup[r].result \notin {"none", "db_error"} =>
            /\ lookup[r].result \in {"True", "False"}
            /\ lookup[r].result = "True" <=> lookup[r].live >= 1

\* C29: every signal the news-driven generator emits has a combined score
\* with the same sign as the triggering article's sentiment score.
C29_NewsSignKept ==
    LET sign(x) == IF x > 0 THEN 1 ELSE IF x < 0 THEN -1 ELSE 0
    IN  (pin.fn = "confirm" /\ pout.calls = 1) =>
            \A i \in DOMAIN pout.nd_out :
                /\ sign(pout.nd_out[i].combined) = sign(SentimentOf(pin.probs).score)
                /\ sign(pout.nd_out[i].signal.combined) = sign(pout.nd_out[i].combined)

\* a signal emitted for a positive article against the most bearish
\* technical score the scorer produces
C29_Witness ==
    /\ pin.fn = "confirm" /\ pout.calls = 1
    /\ pout.nd_out # <<>>
    /\ SentimentOf(pin.probs).score > 0
    /\ pout.nd_out[1].tech = -800

\* C30: once a digest has delivered a generated (non-demo) signal for a
\* (symbol, direction) pair, no later digest within the following 7 days
\* delivers another generated signal for the same symbol and direction; here
\* for a later digest whose items come from the technical-only fallback.
C30_NoRepeatAcrossGenerators ==
    \A e1 \in delivered : \A e2 \in delivered :
        (/\ e1.digest < e2.digest
         /\ e2.source = "technical"
         /\ e1.symbol = e2.symbol
         /\ e1.direction = e2.direction) =>
            e2.at - e1.at >= SIGNAL_EXPIRY_DAYS

====
